---- MODULE Spec2Model ----
(***************************************************************************)
(* ChromaDBTools (playground/agents_py/tools.py): four retrieval tools     *)
(* over one vector-store handle.  The store is an ordered collection of    *)
(* chunks; every tool is one action that reads the store, formats a text   *)
(* and hands it back (or lets the store's exception through).              *)
(*                                                                         *)
(* A returned text is kept as the pieces the code concatenates: the head   *)
(* (an actual string) and one entry per rendered chunk, whose label is an  *)
(* actual string and whose body is the sequence of characters of the       *)
(* content block.                                                          *)
(***************************************************************************)
EXTENDS Integers, Sequences, FiniteSets, TLC

VARIABLES
    store,      \* self.vector_store: the chunks of the collection, in storage order
    pc,         \* "idle": no tool running; "done": a tool has just finished
    call,       \* the tool invocation that has just finished (its arguments)
    outcome,    \* "none" | "returned" | "raised"
    ret,        \* the text returned (NoString when nothing was returned)
    calls,      \* the store calls the invocation made, in order
    memo        \* history: the first probe invocation of the behaviour and its result

vars == <<store, pc, call, outcome, ret, calls, memo>>

----------------------------------------------------------------------------
(* Bounds of the model *)

MaxChunks == 3
MaxK == 2
MaxPage == 2
MaxList == 2

(* Constants of the program *)

SemanticLimit == 300
FilterLimit == 250
OverFetch == 3
KeywordK == 10
DefaultPage == 0

----------------------------------------------------------------------------
(* Values *)

Min(a, b) == IF a <= b THEN a ELSE b

Range(s) == {s[i] : i \in DOMAIN s}

Take(s, n) == SubSeq(s, 1, Min(n, Len(s)))

SeqsUpTo(S, n) == UNION {[1..m -> S] : m \in 0..n}

Alphabet == <<"a", "b", ".", "c", "d">>

\* A content of n characters; salt shifts the letters so that contents differ.
MkContent(n, salt) == [i \in 1..n |-> Alphabet[((i + salt) % Len(Alphabet)) + 1]]

Ellipsis == <<".", ".", ".">>

\* Chunk metadata is a mapping, kept as its set of <<key, value>> pairs.
PageMeta(p) == {<<"page", p>>}
NoMeta == {}

Document(content, metadata) == [page_content |-> content, metadata |-> metadata]

HasPage(metadata) == \E kv \in metadata : kv[1] = "page"

PageOf(metadata) == (CHOOSE kv \in metadata : kv[1] = "page")[2]

\* The chunks a collection is built from: pages 0, 1, 2 and none, contents
\* around both truncation thresholds.
CandidateChunks ==
    { Document(MkContent(SemanticLimit + 1, 0), PageMeta(MaxPage)),
      Document(MkContent(FilterLimit + 1, 1), PageMeta(1)),
      Document(MkContent(SemanticLimit, 2), PageMeta(1)),
      Document(MkContent(FilterLimit, 3), PageMeta(0)),
      Document(MkContent(2, 4), NoMeta) }

Stores == SeqsUpTo(CandidateChunks, MaxChunks)

Queries == {"alpha", "beta"}
PageArgs == 0..MaxPage
Ks == 1..MaxK

----------------------------------------------------------------------------
(* The vector store (external): similarity search and metadata lookup.     *)
(* Both answer with positions of the store's chunks.                       *)

\* The similarity ranking of the chunks for a query: a permutation of the
\* store's positions.  "alpha" ranks in storage order, any other query in
\* the reverse order.
Rank(s, query) ==
    IF query = "alpha"
    THEN [i \in 1..Len(s) |-> i]
    ELSE [i \in 1..Len(s) |-> Len(s) + 1 - i]

\* vector_store.similarity_search(query, k=k): the k best-ranked chunks.
similarity_search(s, query, k) == Take(Rank(s, query), k)

NoWhere == [op |-> "none", operands |-> <<>>]

\* Whether a chunk's metadata satisfies a where-filter.
Matches(where, metadata) ==
    CASE where.op = "eq" -> <<"page", where.operands[1]>> \in metadata
      [] where.op = "$or" ->
            \E i \in DOMAIN where.operands : <<"page", where.operands[i]>> \in metadata
      [] OTHER -> TRUE

RECURSIVE Select(_, _, _)
\* The positions i..Len(s) of s whose chunk satisfies the filter, in order.
Select(s, where, i) ==
    IF i > Len(s) THEN <<>>
    ELSE (IF Matches(where, s[i].metadata) THEN <<i>> ELSE <<>>)
         \o Select(s, where, i + 1)

\* vector_store.get(where=where): the matching chunks in storage order.
get(s, where) == Select(s, where, 1)

\* One store call as the log keeps it: what was asked, the positions
\* answered, and whether the call raised instead of answering.
SearchCall(query, k, hits, raised) ==
    [method |-> "similarity_search", query |-> query, k |-> k,
     where |-> NoWhere, hits |-> hits, raised |-> raised]

GetCall(where, hits, raised) ==
    [method |-> "get", query |-> "", k |-> 0,
     where |-> where, hits |-> hits, raised |-> raised]

Chunks(s, hits) == [i \in 1..Len(hits) |-> s[hits[i]]]

----------------------------------------------------------------------------
(* Formatting *)

\* str() of a list of integers: "[3, 5]".
RECURSIVE JoinInts(_)
JoinInts(xs) ==
    IF Len(xs) = 0 THEN ""
    ELSE IF Len(xs) = 1 THEN ToString(xs[1])
    ELSE ToString(xs[1]) \o ", " \o JoinInts(Tail(xs))

PyIntList(xs) == "[" \o JoinInts(xs) \o "]"

\* str() of a list of strings: "['alpha', 'beta']".
RECURSIVE JoinStrs(_)
JoinStrs(xs) ==
    IF Len(xs) = 0 THEN ""
    ELSE IF Len(xs) = 1 THEN "'" \o xs[1] \o "'"
    ELSE "'" \o xs[1] \o "', " \o JoinStrs(Tail(xs))

PyStrList(xs) == "[" \o JoinStrs(xs) \o "]"

Text(head, entries) == [head |-> head, entries |-> entries]

NoString == Text("", <<>>)

Result(o, r, c) == [outcome |-> o, ret |-> r, calls |-> c]

\* Truncate with the threshold itself cut too (>= for >).
TruncateAtThreshold(content, limit) ==
    IF Len(content) >= limit
    THEN SubSeq(content, 1, limit) \o Ellipsis
    ELSE content

\* res.page_content[:limit] + "..." if len(res.page_content) > limit
\* else res.page_content
Truncate(content, limit) ==
    IF Len(content) > limit
    THEN SubSeq(content, 1, limit) \o Ellipsis
    ELSE content

\* res.metadata.get("page", "unknown") as the f-string prints it.
PageLabel(metadata) ==
    IF HasPage(metadata) THEN ToString(PageOf(metadata)) ELSE "unknown"

\* SearchEntry numbered from 0 (enumerate without its start).
SearchEntryFromZero(i, res, limit) ==
    [label |-> ToString(i - 1) \o ". [Page " \o PageLabel(res.metadata) \o "]\n",
     body |-> Truncate(res.page_content, limit)]

\* f"{i}. [Page {page}]\n{content}\n\n"
SearchEntry(i, res, limit) ==
    [label |-> ToString(i) \o ". [Page " \o PageLabel(res.metadata) \o "]\n",
     body |-> Truncate(res.page_content, limit)]

\* f"=== Page {metadata['page']} ===\n{doc}\n\n"
PageBlock(doc, metadata) ==
    [label |-> "=== Page " \o ToString(PageOf(metadata)) \o " ===\n",
     body |-> doc]

----------------------------------------------------------------------------
(* The four tools.  Each takes the store, its arguments and failAt, the    *)
(* index of the store call that raises (0: none does), and yields the      *)
(* outcome, the text returned and the store calls made.                    *)

\* semantic_search(query, k)
semantic_search(s, query, k, failAt) ==
    IF failAt = 1
    THEN Result("raised", NoString, <<SearchCall(query, k, <<>>, TRUE)>>)
    ELSE
      LET hits == similarity_search(s, query, k)
          results == Chunks(s, hits)
          log == <<SearchCall(query, k, hits, FALSE)>>
      IN  IF Len(results) = 0
          THEN Result("returned", Text("No results found for the query.", <<>>), log)
          ELSE Result("returned",
                      Text("Found " \o ToString(Len(results)) \o " relevant passages:\n\n",
                           [i \in 1..Len(results) |->
                               SearchEntry(i, results[i], SemanticLimit)]),
                      log)

\* NoPages with the guard left out.
NoPagesNever(pages) == FALSE

\* if not pages
NoPages(pages) == Len(pages) = 0

\* PageFilter that looks up the first page only.
PageFilterFirstOnly(pages) == [op |-> "eq", operands |-> <<pages[1]>>]

\* where={"page": pages[0]} for one page,
\* where={"$or": [{"page": i} for i in pages]} for several
PageFilter(pages) ==
    IF Len(pages) = 1
    THEN [op |-> "eq", operands |-> <<pages[1]>>]
    ELSE [op |-> "$or", operands |-> pages]

\* get_document_pages(pages)
get_document_pages(s, pages, failAt) ==
    IF NoPages(pages)
    THEN Result("returned", Text("No pages specified.", <<>>), <<>>)
    ELSE
      LET where == PageFilter(pages)
      IN  IF failAt = 1
          THEN Result("raised", NoString, <<GetCall(where, <<>>, TRUE)>>)
          ELSE
            LET hits == get(s, where)
                context == [documents |-> [i \in 1..Len(hits) |-> s[hits[i]].page_content],
                            metadatas |-> [i \in 1..Len(hits) |-> s[hits[i]].metadata]]
                log == <<GetCall(where, hits, FALSE)>>
            IN  IF Len(context.documents) = 0
                THEN Result("returned",
                            Text("No content found for pages: " \o PyIntList(pages), <<>>),
                            log)
                ELSE Result("returned",
                            Text("",
                                 [i \in 1..Min(Len(context.documents), Len(context.metadatas)) |->
                                     PageBlock(context.documents[i], context.metadatas[i])]),
                            log)

\* res.metadata.get("page", 0)
FilterPage(metadata) == IF HasPage(metadata) THEN PageOf(metadata) ELSE DefaultPage

\* start_page <= res.metadata.get("page", 0) <= end_page
InRange(res, start_page, end_page) ==
    /\ start_page <= FilterPage(res.metadata)
    /\ FilterPage(res.metadata) <= end_page

\* [res for res in results if start_page <= ... <= end_page][:k], as the
\* positions of the chunks kept
filtered_hits(s, hits, start_page, end_page, k) ==
    Take(SelectSeq(hits, LAMBDA h : InRange(s[h], start_page, end_page)), k)

\* search_with_page_filter(query, start_page, end_page, k)
search_with_page_filter(s, query, start_page, end_page, k, failAt) ==
    IF failAt = 1
    THEN Result("raised", NoString, <<SearchCall(query, k * OverFetch, <<>>, TRUE)>>)
    ELSE
      LET hits == similarity_search(s, query, k * OverFetch)
          filtered == Chunks(s, filtered_hits(s, hits, start_page, end_page, k))
          log == <<SearchCall(query, k * OverFetch, hits, FALSE)>>
          range == ToString(start_page) \o "-" \o ToString(end_page)
      IN  IF Len(filtered) = 0
          THEN Result("returned",
                      Text("No results found in pages " \o range \o ".", <<>>), log)
          ELSE Result("returned",
                      Text("Found " \o ToString(Len(filtered)) \o " results in pages "
                               \o range \o ":\n\n",
                           [i \in 1..Len(filtered) |->
                               SearchEntry(i, filtered[i], FilterLimit)]),
                      log)

\* if not keywords
NoKeywords(keywords) == Len(keywords) = 0

\* if res.metadata.get("page"): the value is there and is not falsy
PageTruthy(metadata) == HasPage(metadata) /\ PageOf(metadata) # 0

\* [res.metadata.get("page") for res in results if res.metadata.get("page")]
KeywordPages(results) ==
    LET kept == SelectSeq(results, LAMBDA res : PageTruthy(res.metadata))
    IN  [i \in 1..Len(kept) |-> PageOf(kept[i].metadata)]

\* all_pages.update(pages)
Update(all_pages, pages) == all_pages \cup Range(pages)

RECURSIVE KeywordLoopSkipFailed(_, _, _, _, _, _)
\* KeywordLoop that catches a failing search and goes on to the next keyword.
KeywordLoopSkipFailed(s, keywords, i, all_pages, log, failAt) ==
    IF i > Len(keywords)
    THEN [raised |-> FALSE, all_pages |-> all_pages, log |-> log]
    ELSE IF failAt = i
    THEN KeywordLoopSkipFailed(s, keywords, i + 1, all_pages,
                               Append(log, SearchCall(keywords[i], KeywordK, <<>>, TRUE)),
                               failAt)
    ELSE
      LET hits == similarity_search(s, keywords[i], KeywordK)
          pages == KeywordPages(Chunks(s, hits))
      IN  KeywordLoopSkipFailed(s, keywords, i + 1, Update(all_pages, pages),
                                Append(log, SearchCall(keywords[i], KeywordK, hits, FALSE)),
                                failAt)

RECURSIVE KeywordLoop(_, _, _, _, _, _)
\* for keyword in keywords: ... from the i-th keyword on
KeywordLoop(s, keywords, i, all_pages, log, failAt) ==
    IF i > Len(keywords)
    THEN [raised |-> FALSE, all_pages |-> all_pages, log |-> log]
    ELSE IF failAt = i
    THEN [raised |-> TRUE, all_pages |-> all_pages,
          log |-> Append(log, SearchCall(keywords[i], KeywordK, <<>>, TRUE))]
    ELSE
      LET hits == similarity_search(s, keywords[i], KeywordK)
          pages == KeywordPages(Chunks(s, hits))
      IN  KeywordLoop(s, keywords, i + 1, Update(all_pages, pages),
                      Append(log, SearchCall(keywords[i], KeywordK, hits, FALSE)),
                      failAt)

RECURSIVE unsorted(_)
\* sorted with the order of the pages not the ascending one.
unsorted(S) ==
    IF S = {} THEN <<>>
    ELSE LET m == CHOOSE x \in S : \A y \in S : x >= y
         IN  <<m>> \o unsorted(S \ {m})

RECURSIVE sorted(_)
\* sorted(list(all_pages)): ascending
sorted(S) ==
    IF S = {} THEN <<>>
    ELSE LET m == CHOOSE x \in S : \A y \in S : x <= y
         IN  <<m>> \o sorted(S \ {m})

\* find_pages_by_keywords(keywords)
find_pages_by_keywords(s, keywords, failAt) ==
    IF NoKeywords(keywords)
    THEN Result("returned", Text("No keywords provided.", <<>>), <<>>)
    ELSE
      LET loop == KeywordLoop(s, keywords, 1, {}, <<>>, failAt)
          sorted_pages == sorted(loop.all_pages)
      IN  IF loop.raised
          THEN Result("raised", NoString, loop.log)
          ELSE IF loop.all_pages = {}
          THEN Result("returned",
                      Text("No pages found containing keywords: " \o PyStrList(keywords),
                           <<>>),
                      loop.log)
          ELSE Result("returned",
                      Text("Found " \o ToString(Len(sorted_pages))
                               \o " pages containing keywords " \o PyStrList(keywords)
                               \o ":\nPages: " \o PyIntList(sorted_pages),
                           <<>>),
                      loop.log)

----------------------------------------------------------------------------
(* The state machine *)

Call(op, query, pages, start_page, end_page, k, keywords, failAt) ==
    [op |-> op, query |-> query, pages |-> pages, start_page |-> start_page,
     end_page |-> end_page, k |-> k, keywords |-> keywords, failAt |-> failAt]

NoCall == Call("none", "", <<>>, 0, 0, 0, <<>>, 0)

\* The history: the first probe invocation, what it gave, and whether another
\* invocation has finished since.
MemoOff ==
    [state |-> "off", call |-> NoCall, outcome |-> "none", ret |-> NoString,
     others |-> FALSE]
MemoEmpty ==
    [state |-> "empty", call |-> NoCall, outcome |-> "none", ret |-> NoString,
     others |-> FALSE]

\* The invocations the history watches: no raising store call, k = 1,
\* pages 0 and 1, lists of at most one element.
Probe(c) ==
    /\ c.failAt = 0
    /\ c.k <= 1
    /\ Len(c.pages) <= 1 /\ Range(c.pages) \subseteq 0..1
    /\ c.start_page \in 0..1 /\ c.end_page \in 0..1
    /\ Len(c.keywords) <= 1

Remember(m, c, r) ==
    IF m.state = "empty" /\ Probe(c)
    THEN [state |-> "set", call |-> c, outcome |-> r.outcome, ret |-> r.ret,
          others |-> FALSE]
    ELSE IF m.state = "set" /\ c # m.call
    THEN [m EXCEPT !.others = TRUE]
    ELSE m

\* ChunkAfterRender with the content cut in place
\* (res.page_content = res.page_content[:limit] + "...").
ChunkAfterRenderInPlace(res, limit) ==
    [res EXCEPT !.page_content = Truncate(@, limit)]

\* The chunk a rendered result refers to after its content block was built:
\* content is a new string, res.page_content is never assigned.
ChunkAfterRender(res, limit) == res

\* The store after the chunks at the given positions were rendered.
StoreAfterRender(s, rendered, limit) ==
    [i \in 1..Len(s) |->
        IF i \in Range(rendered) THEN ChunkAfterRender(s[i], limit) ELSE s[i]]

Finish(c, r) ==
    /\ pc = "idle"
    /\ pc' = "done"
    /\ call' = c
    /\ outcome' = r.outcome
    /\ ret' = r.ret
    /\ calls' = r.calls
    /\ memo' = Remember(memo, c, r)

SemanticSearch ==
    \E query \in Queries, k \in Ks, failAt \in 0..1 :
        LET r == semantic_search(store, query, k, failAt)
        IN  /\ Finish(Call("semantic_search", query, <<>>, 0, 0, k, <<>>, failAt), r)
            /\ store' = StoreAfterRender(store, r.calls[1].hits, SemanticLimit)

GetDocumentPages ==
    \E pages \in SeqsUpTo(PageArgs, MaxList) :
        \E failAt \in 0..(IF Len(pages) = 0 THEN 0 ELSE 1) :
            /\ Finish(Call("get_document_pages", "", pages, 0, 0, 0, <<>>, failAt),
                      get_document_pages(store, pages, failAt))
            /\ UNCHANGED store

SearchWithPageFilter ==
    \E query \in Queries, start_page \in PageArgs, end_page \in PageArgs,
       k \in Ks, failAt \in 0..1 :
        LET r == search_with_page_filter(store, query, start_page, end_page, k, failAt)
        IN  /\ Finish(Call("search_with_page_filter", query, <<>>, start_page,
                           end_page, k, <<>>, failAt), r)
            /\ store' = StoreAfterRender(
                            store,
                            filtered_hits(store, r.calls[1].hits, start_page, end_page, k),
                            FilterLimit)

FindPagesByKeywords ==
    \E keywords \in SeqsUpTo(Queries, MaxList) :
        \E failAt \in 0..Len(keywords) :
            /\ Finish(Call("find_pages_by_keywords", "", <<>>, 0, 0, 0, keywords, failAt),
                      find_pages_by_keywords(store, keywords, failAt))
            /\ UNCHANGED store

\* The caller takes the string (or the exception); nothing of the
\* invocation is kept.
Deliver ==
    /\ pc = "done"
    /\ pc' = "idle"
    /\ call' = NoCall
    /\ outcome' = "none"
    /\ ret' = NoString
    /\ calls' = <<>>
    /\ UNCHANGED <<store, memo>>

Init ==
    /\ store \in Stores
    /\ pc = "idle"
    /\ call = NoCall
    /\ outcome = "none"
    /\ ret = NoString
    /\ calls = <<>>
    /\ memo = MemoOff

\* Small collections, with the history of the first probe invocation on.
InitRepeat ==
    /\ store \in {s \in Stores : Len(s) <= 2}
    /\ pc = "idle"
    /\ call = NoCall
    /\ outcome = "none"
    /\ ret = NoString
    /\ calls = <<>>
    /\ memo = MemoEmpty

Next ==
    \/ SemanticSearch
    \/ GetDocumentPages
    \/ SearchWithPageFilter
    \/ FindPagesByKeywords
    \/ Deliver

Spec == Init /\ [][Next]_vars

SpecRepeat == InitRepeat /\ [][Next]_vars

----------------------------------------------------------------------------
(* Properties *)

Done(op) == pc = "done" /\ call.op = op

Returned(op) == Done(op) /\ outcome = "returned"

\* A content block as the text shows it for a threshold.
Shown(content, limit) ==
    IF Len(content) > limit
    THEN [j \in 1..(limit + 3) |-> IF j <= limit THEN content[j] ELSE "."]
    ELSE content

\* The page a chunk is labelled with.
Shows(metadata) ==
    IF HasPage(metadata) THEN ToString(PageOf(metadata)) ELSE "unknown"

NumberedLabel(i, page) == ToString(i) \o ". [Page " \o page \o "]\n"

StrictlyAscending(sp) == \A i \in 1..(Len(sp) - 1) : sp[i] < sp[i + 1]

\* C1: search_with_page_filter never shows a result whose page is outside
\* [start_page, end_page]: every entry of the text comes from a fetched
\* chunk that carries a page p with start_page <= p <= end_page, and the
\* text holds at most k entries.
C1_OnlyPagesInRange ==
    Returned("search_with_page_filter") =>
        /\ Len(ret.entries) <= call.k
        /\ \A i \in 1..Len(ret.entries) :
              \E h \in Range(calls[1].hits) :
                  /\ HasPage(store[h].metadata)
                  /\ call.start_page <= PageOf(store[h].metadata)
                  /\ PageOf(store[h].metadata) <= call.end_page
                  /\ ret.entries[i].label
                        = NumberedLabel(i, ToString(PageOf(store[h].metadata)))
                  /\ ret.entries[i].body = Shown(store[h].page_content, FilterLimit)

\* The pages of the chunks, among those the searches answered, that carry
\* page metadata.
PagesAnswered ==
    UNION { {PageOf(store[h].metadata) :
                h \in {x \in Range(calls[n].hits) : HasPage(store[x].metadata)}} :
            n \in 1..Len(calls) }

KeywordsHead(keywords, sp) ==
    "Found " \o ToString(Len(sp)) \o " pages containing keywords "
        \o PyStrList(keywords) \o ":\nPages: " \o PyIntList(sp)

NoPagesFound(keywords) ==
    Text("No pages found containing keywords: " \o PyStrList(keywords), <<>>)

PageLists == SeqsUpTo(PageArgs, MaxPage + 1)

\* C2: for a non-empty keyword list the pages find_pages_by_keywords reports
\* are exactly the pages of all chunks, in any keyword's k=10 results, that
\* carry page metadata (page 0 included).
C2_PagesAreUnionOfAllPaged ==
    (Returned("find_pages_by_keywords") /\ Len(call.keywords) > 0) =>
        /\ Len(calls) = Len(call.keywords)
        /\ \A n \in 1..Len(calls) :
              calls[n].query = call.keywords[n] /\ calls[n].k = 10
        /\ IF PagesAnswered = {}
           THEN ret = NoPagesFound(call.keywords)
           ELSE \E sp \in PageLists :
                    /\ Range(sp) = PagesAnswered
                    /\ Len(sp) = Cardinality(PagesAnswered)
                    /\ ret = Text(KeywordsHead(call.keywords, sp), <<>>)

\* C3: semantic_search returns exactly "No results found for the query."
\* when the store answers no chunk, and otherwise "Found N relevant
\* passages" with N the number of chunks answered, followed by exactly N
\* entries numbered 1..N in the order of the answer.
C3_SemanticSearchCountsAnswer ==
    Returned("semantic_search") =>
        LET answer == calls[1].hits
            N == Len(answer)
        IN  /\ Len(calls) = 1
            /\ calls[1].query = call.query /\ calls[1].k = call.k
            /\ IF N = 0
               THEN ret = Text("No results found for the query.", <<>>)
               ELSE /\ ret.head = "Found " \o ToString(N) \o " relevant passages:\n\n"
                    /\ Len(ret.entries) = N
                    /\ \A i \in 1..N :
                          /\ ret.entries[i].label
                                = NumberedLabel(i, Shows(store[answer[i]].metadata))
                          /\ \A j \in 1..Min(Len(store[answer[i]].page_content), 300) :
                                ret.entries[i].body[j] = store[answer[i]].page_content[j]

C3_Witness ==
    /\ Returned("semantic_search")
    /\ Len(ret.entries) = 2
    /\ store[calls[1].hits[1]] # store[calls[1].hits[2]]

\* C4: for a non-empty pages list get_document_pages makes exactly one store
\* lookup, whose filter matches a chunk iff the chunk's page is an element
\* of pages (exact match for one page, a disjunction for several); it
\* returns "No content found for pages: <pages>" when nothing matches and
\* otherwise one "=== Page <n> ===" block with the full content per chunk,
\* in the order of the store's answer.
C4_PagesLookup ==
    (Done("get_document_pages") /\ Len(call.pages) > 0) =>
        /\ Len(calls) = 1
        /\ calls[1].method = "get"
        /\ calls[1].where.op = (IF Len(call.pages) = 1 THEN "eq" ELSE "$or")
        /\ \A c \in CandidateChunks :
              Matches(calls[1].where, c.metadata)
                  <=> (HasPage(c.metadata) /\ PageOf(c.metadata) \in Range(call.pages))
        /\ outcome = "returned" =>
              LET answer == calls[1].hits
              IN  IF Len(answer) = 0
                  THEN ret = Text("No content found for pages: " \o PyIntList(call.pages),
                                  <<>>)
                  ELSE /\ ret.head = ""
                       /\ Len(ret.entries) = Len(answer)
                       /\ \A i \in 1..Len(answer) :
                             /\ ret.entries[i].label
                                   = "=== Page "
                                       \o ToString(PageOf(store[answer[i]].metadata))
                                       \o " ===\n"
                             /\ ret.entries[i].body = store[answer[i]].page_content

C4_Witness ==
    /\ Returned("get_document_pages")
    /\ Len(call.pages) = 2
    /\ call.pages[1] # call.pages[2]
    /\ Len(ret.entries) = 2
    /\ ret.entries[1].label # ret.entries[2].label
    /\ Len(store) = 3

\* C5: for a non-empty keyword list the page list find_pages_by_keywords
\* shows is strictly ascending (sorted, no page twice) and the count shown
\* is the number of pages of that list.
C5_PagesSortedDeduplicated ==
    (Returned("find_pages_by_keywords") /\ Len(call.keywords) > 0) =>
        \/ ret = NoPagesFound(call.keywords)
        \/ \E sp \in PageLists :
              /\ Len(sp) > 0
              /\ StrictlyAscending(sp)
              /\ ret = Text(KeywordsHead(call.keywords, sp), <<>>)

C5_Witness ==
    /\ Returned("find_pages_by_keywords")
    /\ call.keywords = <<"alpha", "beta">>
    /\ \E h1 \in Range(calls[1].hits), h2 \in Range(calls[2].hits) :
          /\ store[h1].metadata = PageMeta(1)
          /\ store[h2].metadata = PageMeta(1)
    /\ ret = Text(KeywordsHead(call.keywords, <<1, MaxPage>>), <<>>)
    /\ store[1].metadata = PageMeta(MaxPage)

\* The positions of the chunks whose content the text shows, in order.
RenderedHits ==
    IF call.op = "semantic_search"
    THEN calls[1].hits
    ELSE filtered_hits(store, calls[1].hits, call.start_page, call.end_page, call.k)

ThresholdOf(op) == IF op = "semantic_search" THEN 300 ELSE 250

RenderedRight ==
    LET limit == ThresholdOf(call.op)
    IN  /\ Len(ret.entries) = Len(RenderedHits)
        /\ \A i \in 1..Len(ret.entries) :
              LET content == store[RenderedHits[i]].page_content
                  body == ret.entries[i].body
              IN  IF Len(content) > limit
                  THEN /\ Len(body) = limit + 3
                       /\ SubSeq(body, 1, limit) = SubSeq(content, 1, limit)
                       /\ SubSeq(body, limit + 1, limit + 3) = <<".", ".", ".">>
                  ELSE body = content

\* C6: in semantic_search (threshold 300) and search_with_page_filter
\* (threshold 250) a content block of a chunk longer than the threshold is
\* the first threshold characters followed by "...", a chunk of at most the
\* threshold is shown unchanged, and the chunk itself is not modified.
C6_TruncationIsDisplayOnly ==
    [][ (pc' = "done" /\ call'.op \in {"semantic_search", "search_with_page_filter"}
            /\ outcome' = "returned")
        => (store' = store /\ RenderedRight') ]_vars

C6_Witness ==
    /\ Returned("search_with_page_filter")
    /\ Len(ret.entries) = 2
    /\ Len(store[RenderedHits[1]].page_content) = 250
    /\ Len(ret.entries[1].body) = 250
    /\ Len(store[RenderedHits[2]].page_content) = 251
    /\ Len(ret.entries[2].body) = 253

\* C7: get_document_pages([]) returns exactly "No pages specified." and
\* find_pages_by_keywords([]) returns "No keywords provided.", both without
\* any store call.
C7_EmptyInputNoStoreCall ==
    /\ (Done("get_document_pages") /\ call.pages = <<>>) =>
          /\ outcome = "returned"
          /\ ret = Text("No pages specified.", <<>>)
          /\ calls = <<>>
    /\ (Done("find_pages_by_keywords") /\ call.keywords = <<>>) =>
          /\ outcome = "returned"
          /\ ret = Text("No keywords provided.", <<>>)
          /\ calls = <<>>

C7_Witness ==
    /\ Done("get_document_pages")
    /\ call.pages = <<>>
    /\ Len(store) > 0
    /\ \E i \in 1..Len(store) : HasPage(store[i].metadata)

\* C8: a failure the store raises propagates: the operation returns no
\* string, and no store call follows the failing one; find_pages_by_keywords
\* stops at the first keyword whose search fails and drops the pages of the
\* earlier keywords.
C8_StoreFailurePropagates ==
    pc = "done" =>
        /\ (call.failAt > 0 \/ \E n \in 1..Len(calls) : calls[n].raised) =>
              /\ outcome = "raised"
              /\ ret = NoString
              /\ Len(calls) = call.failAt
              /\ \A n \in 1..Len(calls) : calls[n].raised <=> n = Len(calls)
        /\ (outcome = "raised" /\ call.op = "find_pages_by_keywords") =>
              \A n \in 1..Len(calls) : calls[n].query = call.keywords[n]
        /\ outcome = "raised" => call.failAt > 0

C8_Witness ==
    /\ Done("find_pages_by_keywords")
    /\ outcome = "raised"
    /\ Len(call.keywords) = MaxList
    /\ call.failAt = 2
    /\ \E h \in Range(calls[1].hits) : PageTruthy(store[h].metadata)

\* The text search_with_page_filter is to return for the chunks at the
\* given positions.
FilterText(kept) ==
    LET range == ToString(call.start_page) \o "-" \o ToString(call.end_page)
    IN  IF Len(kept) = 0
        THEN Text("No results found in pages " \o range \o ".", <<>>)
        ELSE Text("Found " \o ToString(Len(kept)) \o " results in pages " \o range
                      \o ":\n\n",
                  [i \in 1..Len(kept) |->
                      [label |-> NumberedLabel(i, Shows(store[kept[i]].metadata)),
                       body |-> Shown(store[kept[i]].page_content, 250)]])

\* C9: search_with_page_filter with k >= 1 makes one similarity search for
\* k*3 results and returns exactly the first k of them whose page lies in
\* [start_page, end_page], in the order of the answer; all of them when
\* fewer than k are in range, the "No results found in pages" text when
\* none is; the count of the header is the number of entries.
C9_FirstKInRange ==
    Returned("search_with_page_filter") =>
        /\ Len(calls) = 1
        /\ calls[1].method = "similarity_search"
        /\ calls[1].query = call.query
        /\ calls[1].k = call.k * 3
        /\ ret = FilterText(
                    Take(SelectSeq(calls[1].hits,
                                   LAMBDA h : /\ HasPage(store[h].metadata)
                                              /\ call.start_page <= PageOf(store[h].metadata)
                                              /\ PageOf(store[h].metadata) <= call.end_page),
                         call.k))

====
